---- MODULE Spec2Model ----
(***************************************************************************)
(* Model of create.py: create_print_sheet (the sheet layout and its        *)
(* composition) and process_directory (the batch loop over a directory).   *)
(*                                                                         *)
(* Python's float arithmetic (lines 42-52) is IEEE-754 binary64.  It is    *)
(* modelled bit by bit: a positive double is a record [m, e] whose value   *)
(* is m * 2^e, m being a 53-bit significand written as a sequence of bits, *)
(* most significant first.  Zero is the record with the empty significand. *)
(*                                                                         *)
(* page_size is counted in quarter inches, so that page_size * dpi and     *)
(* 0.25 * dpi are exact in binary64 and int() of them is a floor division  *)
(* by 4.                                                                   *)
(*                                                                         *)
(* The imaging library is the environment.  An image file is "ok",         *)
(* "unidentified" (Image.open raises, line 26) or "truncated" (Image.open  *)
(* reads the header, the pixel data fail to load in img.resize, line 54,   *)
(* with OSError).  img.resize raises ValueError for a width or height      *)
(* below 1.                                                                *)
(***************************************************************************)
EXTENDS Integers, Sequences, FiniteSets, TLC

\* ------------------------------------------------------------------------
\* Bit sequences (most significant bit first)
\* ------------------------------------------------------------------------

Precision == 53

Bit == {0, 1}

Zeros(n) == [k \in 1..n |-> 0]

\* the binary digits of a natural number, without leading zeros (0 is <<>>)
IntBits[n \in Nat] == IF n = 0 THEN <<>> ELSE Append(IntBits[n \div 2], n % 2)

\* the natural number a short bit sequence denotes
BitsToInt[bs \in Seq(Bit)] ==
    IF bs = <<>> THEN 0
    ELSE 2 * BitsToInt[SubSeq(bs, 1, Len(bs) - 1)] + bs[Len(bs)]

\* a > b for two bit sequences of the same length
BitsGreater(a, b) ==
    \E k \in 1..Len(a) : a[k] > b[k] /\ \A j \in 1..(k - 1) : a[j] = b[j]

\* a - b for two bit sequences of the same length, a >= b
BitsSub(a, b) ==
    LET n == Len(a)
        borrow(k) == IF \E j \in (k + 1)..n :
                           /\ b[j] > a[j]
                           /\ \A i \in (k + 1)..(j - 1) : a[i] = b[i]
                     THEN 1 ELSE 0
    IN  [k \in 1..n |-> (a[k] - b[k] - borrow(k) + 2) % 2]

\* a + b for two bit sequences of the same length, one bit longer
BitsAdd(a, b) ==
    LET n == Len(a)
        x == <<0>> \o a
        y == <<0>> \o b
        carry(k) == IF \E j \in (k + 1)..(n + 1) :
                          /\ x[j] = 1 /\ y[j] = 1
                          /\ \A i \in (k + 1)..(j - 1) : x[i] # y[i]
                    THEN 1 ELSE 0
    IN  [k \in 1..(n + 1) |-> (x[k] + y[k] + carry(k)) % 2]

\* a + 1; one bit longer than a when a is all ones
BitsInc(a) ==
    IF \A k \in 1..Len(a) : a[k] = 1 THEN <<1>> \o Zeros(Len(a))
    ELSE LET p == CHOOSE k \in 1..Len(a) :
                      a[k] = 0 /\ \A j \in (k + 1)..Len(a) : a[j] = 1
         IN  [k \in 1..Len(a) |-> IF k < p THEN a[k] ELSE IF k = p THEN 1 ELSE 0]

\* bs without its leading zeros
StripZeros(bs) ==
    IF \A k \in 1..Len(bs) : bs[k] = 0 THEN <<>>
    ELSE LET p == CHOOSE k \in 1..Len(bs) :
                      bs[k] = 1 /\ \A j \in 1..(k - 1) : bs[j] = 0
         IN  SubSeq(bs, p, Len(bs))

\* c * a for a natural c and a bit sequence a: binary long multiplication,
\* one digit of c per step
BitsMul[c \in Nat, a \in Seq(Bit)] ==
    IF c = 0 THEN Zeros(Len(a))
    ELSE LET rest == BitsMul[c \div 2, a] \o <<0>>
         IN  IF c % 2 = 0 THEN rest
             ELSE BitsAdd(rest, Zeros(Len(rest) - Len(a)) \o a)

\* ------------------------------------------------------------------------
\* binary64 values and the operations create_print_sheet uses
\* ------------------------------------------------------------------------

\* a double is sign * m * 2^e: s is 1 or -1, m the significand (empty for zero)
FZero == [s |-> 1, m |-> <<>>, e |-> 0]

Double == [s : {1, -1}, m : Seq(Bit), e : Int]

Abs(x) == IF x < 0 THEN -x ELSE x

Sign(x) == IF x < 0 THEN -1 ELSE 1

\* round-to-nearest, ties-to-even, of bits * 2^exp (+ a non-zero tail below
\* the last bit when sticky), bits having no leading zero
FRound(bits, sticky, exp) ==
    IF bits = <<>> THEN FZero
    ELSE IF Len(bits) <= Precision
    THEN [s |-> 1, m |-> bits \o Zeros(Precision - Len(bits)),
          e |-> exp - (Precision - Len(bits))]
    ELSE LET m0    == SubSeq(bits, 1, Precision)
             guard == bits[Precision + 1]
             rest  == sticky \/ \E k \in (Precision + 2)..Len(bits) : bits[k] = 1
             e0    == exp + (Len(bits) - Precision)
             up    == guard = 1 /\ (rest \/ m0[Precision] = 1)
             m1    == IF up THEN BitsInc(m0) ELSE m0
         IN  IF Len(m1) > Precision
             THEN [s |-> 1, m |-> SubSeq(m1, 1, Precision), e |-> e0 + 1]
             ELSE [s |-> 1, m |-> m1, e |-> e0]

\* long division r / y, one quotient bit per step, until acc holds the
\* significand and a guard bit
RatioBits[r \in Nat, y \in Nat, acc \in Seq(Bit), exp \in Int] ==
    IF Len(acc) >= Precision + 1 THEN FRound(acc, r # 0, exp)
    ELSE IF r = 0 THEN FRound(acc, FALSE, exp)
    ELSE LET b == (2 * r) \div y
         IN  RatioBits[(2 * r) % y, y,
                       IF acc = <<>> /\ b = 0 THEN <<>> ELSE Append(acc, b),
                       exp - 1]

\* x / y for integers x and y # 0 (true division of two ints): the correctly
\* rounded quotient, x and y being exactly representable
FRatio[x \in Int, y \in Int] ==
    IF x = 0 THEN FZero
    ELSE [RatioBits[Abs(x) % Abs(y), Abs(y), IntBits[Abs(x) \div Abs(y)], 0]
            EXCEPT !.s = Sign(x) * Sign(y)]

\* c * a for an integer c and a double a
FMulInt[c \in Int, a \in Double] ==
    IF c = 0 \/ a.m = <<>> THEN FZero
    ELSE [FRound(StripZeros(BitsMul[Abs(c), a.m]), FALSE, a.e)
            EXCEPT !.s = Sign(c) * a.s]

\* long division R / M of two (Precision+1)-bit numbers, R < M
BigDivBits[R \in Seq(Bit), M \in Seq(Bit), acc \in Seq(Bit), exp \in Int] ==
    IF Len(acc) >= Precision + 1 THEN FRound(acc, R # Zeros(Len(R)), exp)
    ELSE IF R = Zeros(Len(R)) THEN FRound(acc, FALSE, exp)
    ELSE LET R2 == Tail(R) \o <<0>>
         IN  IF BitsGreater(M, R2)
             THEN BigDivBits[R2, M,
                             IF acc = <<>> THEN <<>> ELSE Append(acc, 0),
                             exp - 1]
             ELSE BigDivBits[BitsSub(R2, M), M, Append(acc, 1), exp - 1]

\* c / a for an integer c and a non-zero double a
FDivInt[c \in Int, a \in Double] ==
    IF c = 0 THEN FZero
    ELSE LET cb == IntBits[Abs(c)]
             sh == Precision - Len(cb)
             R0 == <<0>> \o cb \o Zeros(sh)
             M  == <<0>> \o a.m
             q  == IF BitsGreater(M, R0)
                   THEN BigDivBits[R0, M, <<>>, 0]
                   ELSE BigDivBits[BitsSub(R0, M), M, <<1>>, 0]
         IN  [s |-> Sign(c) * a.s, m |-> q.m, e |-> q.e - sh - a.e]

\* magnitude of a > magnitude of b, neither being zero
FMagGreater(a, b) == a.e > b.e \/ (a.e = b.e /\ BitsGreater(a.m, b.m))

\* a > b
FGreater[a \in Double, b \in Double] ==
    IF a.m = <<>> THEN b.m # <<>> /\ b.s = -1
    ELSE IF b.m = <<>> THEN a.s = 1
    ELSE IF a.s # b.s THEN a.s = 1
    ELSE IF a.s = 1 THEN FMagGreater(a, b) ELSE FMagGreater(b, a)

\* int(a): truncation towards zero, for a double below 2^31 in magnitude
FTrunc[a \in Double] ==
    IF a.m = <<>> \/ Precision + a.e <= 0 THEN 0
    ELSE a.s * BitsToInt[SubSeq(a.m, 1, Precision + a.e)]

\* ------------------------------------------------------------------------
\* File names (sequences of one-character strings)
\* ------------------------------------------------------------------------

UpperAlpha == <<"A","B","C","D","E","F","G","H","I","J","K","L","M",
                "N","O","P","Q","R","S","T","U","V","W","X","Y","Z">>
LowerAlpha == <<"a","b","c","d","e","f","g","h","i","j","k","l","m",
                "n","o","p","q","r","s","t","u","v","w","x","y","z">>

\* str.lower(), character by character
Lower(s) ==
    [k \in 1..Len(s) |->
        IF \E u \in 1..26 : UpperAlpha[u] = s[k]
        THEN LowerAlpha[CHOOSE u \in 1..26 : UpperAlpha[u] = s[k]]
        ELSE s[k]]

\* str.endswith()
EndsWith(s, suffix) ==
    /\ Len(s) >= Len(suffix)
    /\ SubSeq(s, Len(s) - Len(suffix) + 1, Len(s)) = suffix

\* index of the last "." of a name, 0 when it has none (str.rfind)
LastDot(s) ==
    IF \E k \in 1..Len(s) : s[k] = "." 
    THEN CHOOSE k \in 1..Len(s) : s[k] = "." /\ \A j \in (k + 1)..Len(s) : s[j] # "."
    ELSE 0

\* os.path.splitext(name)[0]: the name up to its last dot; a dot preceded
\* only by dots (or by nothing) does not start an extension
SplitextRoot(s) ==
    IF \E k \in 1..(LastDot(s) - 1) : s[k] # "."
    THEN SubSeq(s, 1, LastDot(s) - 1)
    ELSE s

image_extensions ==
    << <<".","j","p","g">>, <<".","j","p","e","g">>, <<".","p","n","g">>,
       <<".","g","i","f">>, <<".","b","m","p">>, <<".","t","i","f","f">> >>

SheetSuffix == <<"_","s","h","e","e","t",".","p","n","g">>

\* (mutant) the extension left in the output name
OutputPathKeepsExtension(name) == name \o SheetSuffix

\* the path create_print_sheet saves to, relative to output_dir
OutputPath(name) == SplitextRoot(name) \o SheetSuffix

\* ------------------------------------------------------------------------
\* State
\* ------------------------------------------------------------------------

VARIABLES
    input_dir,   \* os.listdir(input_dir): the entries, in listing order; an
                 \* entry is [name, isfile, img], img = [kind, width, height]
    copies,      \* the copies argument
    page_size,   \* the page_size argument, in quarter inches: <<34, 44>> is (8.5, 11)
    dpi,         \* the dpi argument
    pc,          \* position of the running function
    idx,         \* position of process_directory's loop in the listing
    processed,   \* process_directory's counter
    calls,       \* the create_print_sheet calls made so far, with their results
    output,      \* the files of output_dir: a set of [path, source]
    summary      \* the N of "Processed N images", -1 while nothing is printed

vars == <<input_dir, copies, page_size, dpi, pc, idx, processed, calls,
          output, summary>>

\* ------------------------------------------------------------------------
\* create_print_sheet
\* ------------------------------------------------------------------------

DefaultPageSize == <<34, 44>>
DefaultDpi == 300

\* (mutant) math.ceil(math.sqrt(n)) in place of int(math.sqrt(n))
GridSizeRoundUp(n) ==
    CHOOSE g \in 0..n : g * g >= n /\ (g = 0 \/ (g - 1) * (g - 1) < n)

\* int(math.sqrt(n)) for a natural n
GridSize(n) == CHOOSE g \in 0..n : g * g <= n /\ (g + 1) * (g + 1) > n

\* (mutant) the comparison of line 45 turned round
ImageWiderReversed(img_aspect, card_aspect) == FGreater[card_aspect, img_aspect]

\* line 45: img_aspect > card_aspect
ImageWider(img_aspect, card_aspect) == FGreater[img_aspect, card_aspect]

\* (mutant) line 48 multiplying by the aspect ratio, as line 52 does
FitWidthHeightMul(card_width, img_aspect) == FTrunc[FMulInt[card_width, img_aspect]]

\* line 48: int(card_width / img_aspect)
FitWidthHeight(card_width, img_aspect) == FTrunc[FDivInt[card_width, img_aspect]]

\* line 52: int(card_height * img_aspect)
FitHeightWidth(card_height, img_aspect) == FTrunc[FMulInt[card_height, img_aspect]]

\* lines 42-52: the size the image is resized to, <<fit, new_width, new_height>>
NewSize[img_width \in Nat, img_height \in Nat, card_width \in Int, card_height \in Int] ==
    IF ImageWider(FRatio[img_width, img_height], FRatio[card_width, card_height])
    THEN <<"width", card_width,
           FitWidthHeight(card_width, FRatio[img_width, img_height])>>
    ELSE <<"height", FitHeightWidth(card_height, FRatio[img_width, img_height]),
           card_height>>

\* line 63 (and 64, with row and the heights): the paste position of a cell
CellOffset(index, margin_px, card, new) ==
    margin_px + (index * card) + ((card - new) \div 2)

\* (mutant) the two loops of lines 60-61 exchanged
PastesColumnMajor(grid_size, margin_px, card_width, card_height, new_width, new_height) ==
    [k \in 1..(grid_size * grid_size) |->
        LET col == (k - 1) \div grid_size
            row == (k - 1) % grid_size
        IN  <<CellOffset(col, margin_px, card_width, new_width),
              CellOffset(row, margin_px, card_height, new_height)>>]

\* lines 60-67: the paste positions, in the order the two loops make them
\* (for row in range(grid_size): for col in range(grid_size))
Pastes(grid_size, margin_px, card_width, card_height, new_width, new_height) ==
    [k \in 1..(grid_size * grid_size) |->
        LET row == (k - 1) \div grid_size
            col == (k - 1) % grid_size
        IN  <<CellOffset(col, margin_px, card_width, new_width),
              CellOffset(row, margin_px, card_height, new_height)>>]

Raising == {"ValueError", "ZeroDivisionError", "OSError"}

Blank ==
    [outcome |-> "", opened |-> FALSE,
     page_width_px |-> -1, page_height_px |-> -1, grid_size |-> -1,
     margin_px |-> -1, card_width |-> -1, card_height |-> -1,
     fit |-> "", new_width |-> -1, new_height |-> -1,
     pastes |-> <<>>, path |-> <<>>]

\* One call create_print_sheet(image_path, output_dir, copies, page_size, dpi):
\* what it computed, what it pasted, where it saved and how it ended.
\* outcome is "saved" (returns True), "open_failed" (returns False) or the
\* exception that leaves the function.
CreatePrintSheet(image_path) ==
    LET img == image_path.img
        r0  == [Blank EXCEPT !.page_width_px  = (page_size[1] * dpi) \div 4,
                             !.page_height_px = (page_size[2] * dpi) \div 4]
    IN
    IF copies < 0 THEN [r0 EXCEPT !.outcome = "ValueError"]      \* math.sqrt
    ELSE
    LET grid_size == GridSize(copies)
        r1 == [r0 EXCEPT !.grid_size = grid_size, !.opened = TRUE]
    IN
    IF img.kind = "unidentified" THEN [r1 EXCEPT !.outcome = "open_failed"]
    ELSE
    LET margin_px        == dpi \div 4
        available_width  == r0.page_width_px - (2 * margin_px)
        available_height == r0.page_height_px - (2 * margin_px)
        r2 == [r1 EXCEPT !.margin_px = margin_px]
    IN
    IF grid_size = 0 THEN [r2 EXCEPT !.outcome = "ZeroDivisionError"]
    ELSE
    LET card_width  == available_width \div grid_size
        card_height == available_height \div grid_size
        r3 == [r2 EXCEPT !.card_width = card_width, !.card_height = card_height]
    IN
    IF card_height = 0 THEN [r3 EXCEPT !.outcome = "ZeroDivisionError"]
    ELSE
    LET Composite(size) ==
            LET r4 == [r3 EXCEPT !.fit = size[1], !.new_width = size[2],
                                 !.new_height = size[3]]
            IN  IF img.kind = "truncated" THEN [r4 EXCEPT !.outcome = "OSError"]
                ELSE IF size[2] < 1 \/ size[3] < 1
                THEN [r4 EXCEPT !.outcome = "ValueError"]        \* img.resize
                ELSE [r4 EXCEPT
                        !.outcome = "saved",
                        !.pastes  = Pastes(grid_size, margin_px, card_width,
                                           card_height, size[2], size[3]),
                        !.path    = OutputPath(image_path.name)]
    IN  \* the size is computed once, then used
        CHOOSE r \in { Composite(size) :
                         size \in {NewSize[img.width, img.height,
                                           card_width, card_height]} } : TRUE

\* new_page.save(output_path): the file replaces any file of the same path
Save(files, path, source) ==
    {f \in files : f.path # path} \cup {[path |-> path, source |-> source]}

Call(image_path, result) ==
    [name |-> image_path.name, img |-> image_path.img, result |-> result]

\* ------------------------------------------------------------------------
\* process_directory
\* ------------------------------------------------------------------------

\* (mutant) line 89 without the os.path.isfile test
EligibleAnyEntry(entry) ==
    \E k \in 1..Len(image_extensions) :
        EndsWith(Lower(entry.name), image_extensions[k])

\* line 89
Eligible(entry) ==
    /\ entry.isfile
    /\ \E k \in 1..Len(image_extensions) :
           EndsWith(Lower(entry.name), image_extensions[k])

\* (mutant) line 91 outside the if of line 90
CountedAlways(result) == TRUE

\* line 90: if create_print_sheet(...)
Counted(result) == result.outcome = "saved"

OkImage(w, h)  == [kind |-> "ok", width |-> w, height |-> h]
BadImage(kind) == [kind |-> kind, width |-> 1, height |-> 1]

DirEntries ==
    { [name |-> <<"a",".","j","p","g">>, isfile |-> TRUE,  img |-> OkImage(400, 200)],
      [name |-> <<"a",".","p","n","g">>, isfile |-> TRUE,  img |-> OkImage(25, 11)],
      [name |-> <<"b",".","G","I","F">>, isfile |-> TRUE,  img |-> BadImage("unidentified")],
      [name |-> <<".","p","n","g">>,     isfile |-> TRUE,  img |-> OkImage(3, 4)],
      [name |-> <<"c",".","t","x","t">>, isfile |-> TRUE,  img |-> BadImage("unidentified")],
      [name |-> <<"d",".","t","i","f","f">>, isfile |-> FALSE, img |-> BadImage("unidentified")],
      [name |-> <<"e",".","b","m","p">>, isfile |-> TRUE,  img |-> BadImage("truncated")] }

MaxListing == 3

BatchCopies == {-1, 0, 9}

\* the listings of at most MaxListing entries, no name twice
Listings ==
    UNION { { s \in [1..n -> DirEntries] :
                \A p, q \in 1..n : p # q => s[p].name # s[q].name }
            : n \in 0..MaxListing }

Init ==
    /\ input_dir \in Listings
    /\ copies \in BatchCopies
    /\ page_size = DefaultPageSize
    /\ dpi = DefaultDpi
    /\ pc = "start"
    /\ idx = 0
    /\ processed = 0
    /\ calls = <<>>
    /\ output = {}
    /\ summary = -1

\* lines 80-85: makedirs, processed = 0, os.listdir
Start ==
    /\ pc = "start"
    /\ pc' = "loop"
    /\ idx' = 1
    /\ processed' = 0
    /\ UNCHANGED <<input_dir, copies, page_size, dpi, calls, output, summary>>

\* lines 87-89: an entry the filter rejects
SkipEntry ==
    /\ pc = "loop"
    /\ idx <= Len(input_dir)
    /\ ~Eligible(input_dir[idx])
    /\ idx' = idx + 1
    /\ UNCHANGED <<input_dir, copies, page_size, dpi, pc, processed, calls,
                   output, summary>>

\* lines 87-91: an entry the filter accepts
ProcessFile ==
    /\ pc = "loop"
    /\ idx <= Len(input_dir)
    /\ Eligible(input_dir[idx])
    /\ \E result \in {CreatePrintSheet(input_dir[idx])} :
           /\ calls' = Append(calls, Call(input_dir[idx], result))
           /\ IF result.outcome \in Raising
              THEN \* nothing catches it: it leaves process_directory
                   /\ pc' = "crashed"
                   /\ UNCHANGED <<idx, processed, output>>
              ELSE /\ pc' = pc
                   /\ idx' = idx + 1
                   /\ processed' = IF Counted(result) THEN processed + 1
                                   ELSE processed
                   /\ output' = IF result.outcome = "saved"
                                THEN Save(output, result.path, input_dir[idx].name)
                                ELSE output
    /\ UNCHANGED <<input_dir, copies, page_size, dpi, summary>>

\* line 93
Finish ==
    /\ pc = "loop"
    /\ idx > Len(input_dir)
    /\ summary' = processed
    /\ pc' = "done"
    /\ UNCHANGED <<input_dir, copies, page_size, dpi, idx, processed, calls, output>>

Next == Start \/ SkipEntry \/ ProcessFile \/ Finish

Spec == Init /\ [][Next]_vars

\* ------------------------------------------------------------------------
\* create_print_sheet called on its own, with any arguments
\* ------------------------------------------------------------------------

MaxCopies == 10
MaxImageDim == 4

\* <<page width, page height, dpi>>, the page in quarter inches: the
\* defaults, a coarse resolution, two pages that leave no room between the
\* margins on one axis, and a page lower than its two margins
SheetPages ==
    { <<34, 44, 300>>, <<34, 44, 4>>, <<2, 4, 5>>, <<4, 2, 5>>, <<34, 1, 300>> }

SheetImages ==
    { OkImage(w, h) : w \in 1..MaxImageDim, h \in 1..MaxImageDim }
      \cup { OkImage(400, 200), OkImage(25, 11), OkImage(1, 4000) }
      \cup { BadImage("unidentified"), BadImage("truncated") }

SheetInit ==
    /\ \E img \in SheetImages :
          input_dir = << [name |-> <<"s",".","j","p","g">>, isfile |-> TRUE,
                          img |-> img] >>
    /\ copies \in -1..MaxCopies
    /\ \E p \in SheetPages : page_size = <<p[1], p[2]>> /\ dpi = p[3]
    /\ pc = "call"
    /\ idx = 1
    /\ processed = 0
    /\ calls = <<>>
    /\ output = {}
    /\ summary = -1

\* lines 6-76: one call of create_print_sheet
SheetCall ==
    /\ pc = "call"
    /\ \E result \in {CreatePrintSheet(input_dir[idx])} :
           /\ calls' = Append(calls, Call(input_dir[idx], result))
           /\ pc' = IF result.outcome \in Raising THEN "raised" ELSE "returned"
           /\ output' = IF result.outcome = "saved"
                        THEN Save(output, result.path, input_dir[idx].name)
                        ELSE output
    /\ UNCHANGED <<input_dir, copies, page_size, dpi, idx, processed, summary>>

SheetNext == SheetCall

SheetSpec == SheetInit /\ [][SheetNext]_vars

\* ------------------------------------------------------------------------
\* Properties
\* ------------------------------------------------------------------------

Attempts == 1..Len(calls)

Saved == {k \in Attempts : calls[k].result.outcome = "saved"}

\* the N with N * N <= n < (N + 1) * (N + 1)
FloorSqrt(n) == CHOOSE g \in 0..n : g * g <= n /\ n < (g + 1) * (g + 1)

PositiveCell(r) == r.fit # "" /\ r.card_width > 0 /\ r.card_height > 0

\* C1: the failure of one eligible file never aborts the batch: when
\* process_directory has ended, every eligible file of the listing was
\* passed to create_print_sheet and the summary line was printed.
C1_FailureNeverAbortsBatch ==
    pc \in {"done", "crashed"} =>
        /\ summary # -1
        /\ \A k \in 1..Len(input_dir) :
               Eligible(input_dir[k]) =>
                   \E j \in Attempts : calls[j].name = input_dir[k].name

\* every cell (row, col) of the n x n grid holds exactly one paste
OnePastePerCell(r, n) ==
    /\ Len(r.pastes) = n * n
    /\ \A row, col \in 0..(n - 1) :
           Cardinality({k \in 1..Len(r.pastes) :
               r.pastes[k] =
                   << r.margin_px + col * r.card_width
                        + (r.card_width - r.new_width) \div 2,
                      r.margin_px + row * r.card_height
                        + (r.card_height - r.new_height) \div 2 >>}) = 1

ReachesPasteLoop(c) ==
    c.img.kind = "ok" /\ c.result.new_width >= 1 /\ c.result.new_height >= 1

C3_InvalidConfiguration ==
    \A k \in Attempts :
        copies < 1 => calls[k].result.outcome = "InvalidConfiguration"

\* C4: for a positive cell, the resized image is no wider and no higher than
\* the cell, and as wide or as high as the cell.
C4_FitsInsideCell ==
    \A k \in Attempts :
        LET r == calls[k].result
        IN  PositiveCell(r) =>
                /\ r.new_width <= r.card_width
                /\ r.new_height <= r.card_height
                /\ (r.new_width = r.card_width \/ r.new_height = r.card_height)

C4_Witness ==
    \E k \in Attempts :
        LET r == calls[k].result
        IN  /\ PositiveCell(r)
            /\ r.fit = "height"
            /\ 0 < r.new_width /\ r.new_width < r.card_width

\* C5: every pasted rectangle lies inside the margins of the page, on both
\* axes.
C5_PlacementsInsideMargins ==
    \A k \in Attempts :
        LET r == calls[k].result
        IN  \A p \in 1..Len(r.pastes) :
                /\ r.margin_px <= r.pastes[p][1]
                /\ r.pastes[p][1] + r.new_width <= r.page_width_px - r.margin_px
                /\ r.margin_px <= r.pastes[p][2]
                /\ r.pastes[p][2] + r.new_height <= r.page_height_px - r.margin_px

\* C6: the counter is at every moment the number of files whose sheet was
\* saved (a failed file is never counted, a saved one always), it is at most
\* the number of files attempted, and the N of "Processed N images" is the
\* counter.
C6_ReportedCountIsSucceeded ==
    /\ processed = Cardinality(Saved)
    /\ processed <= Len(calls)
    /\ summary # -1 => summary = processed

C6_Witness ==
    /\ summary = 2
    /\ Len(calls) = 3
    /\ \E k \in Attempts : calls[k].result.outcome = "open_failed"

\* the characters after the last dot of a name (none when it has no dot)
Extension(name) ==
    IF LastDot(name) = 0 THEN <<>>
    ELSE SubSeq(name, LastDot(name) + 1, Len(name))

ImageTypes ==
    { <<"j","p","g">>, <<"j","p","e","g">>, <<"p","n","g">>, <<"g","i","f">>,
      <<"b","m","p">>, <<"t","i","f","f">> }

\* C7: an entry reaches Image.open only if it is a regular file whose
\* extension is, in any letter case, one of jpg, jpeg, png, gif, bmp, tiff.
C7_OnlyImageFilesDecoded ==
    \A k \in Attempts :
        calls[k].result.opened =>
            \E e \in 1..Len(input_dir) :
                /\ input_dir[e].name = calls[k].name
                /\ input_dir[e].isfile
                /\ Lower(Extension(input_dir[e].name)) \in ImageTypes

C7_Witness ==
    /\ pc = "done"
    /\ copies = 9
    /\ \E k \in Attempts :
           calls[k].result.opened /\ calls[k].name = <<"b",".","G","I","F">>
    /\ \E e \in 1..Len(input_dir) : ~input_dir[e].isfile
    /\ \E e \in 1..Len(input_dir) : input_dir[e].name = <<"c",".","t","x","t">>
    /\ Len(calls) = 1

\* C8: the cells are pasted in row-major order; in its cell the image has a
\* left (top) gap no larger than its right (bottom) gap, the two differing
\* by at most 1; and a 400x200 source on the default page at 300 dpi with
\* copies 9 gives page 2550x3300, margin 75, cells 800x1050, resized
\* 800x400, pasted at (75 + c*800, 75 + r*1050 + 325) for r, c in 0..2.
C8_CentredRowMajor ==
    \A k \in Attempts :
        LET r == calls[k].result
            n == r.grid_size
        IN  /\ r.outcome = "saved" =>
                \A row, col \in 0..(n - 1) :
                    LET p      == r.pastes[row * n + col + 1]
                        left   == p[1] - (r.margin_px + col * r.card_width)
                        right  == (r.margin_px + (col + 1) * r.card_width)
                                     - (p[1] + r.new_width)
                        top    == p[2] - (r.margin_px + row * r.card_height)
                        bottom == (r.margin_px + (row + 1) * r.card_height)
                                     - (p[2] + r.new_height)
                    IN  /\ left <= right /\ right - left <= 1
                        /\ top <= bottom /\ bottom - top <= 1
            /\ ( /\ calls[k].img = OkImage(400, 200)
                 /\ page_size = <<34, 44>> /\ dpi = 300 /\ copies = 9 ) =>
                   /\ r.outcome = "saved"
                   /\ r.page_width_px = 2550 /\ r.page_height_px = 3300
                   /\ r.margin_px = 75 /\ r.grid_size = 3
                   /\ r.card_width = 800 /\ r.card_height = 1050
                   /\ r.new_width = 800 /\ r.new_height = 400
                   /\ r.pastes = [q \in 1..9 |->
                                     << 75 + ((q - 1) % 3) * 800,
                                        75 + ((q - 1) \div 3) * 1050 + 325 >>]

C8_Witness ==
    \E k \in Attempts :
        /\ calls[k].img = OkImage(400, 200)
        /\ page_size = <<34, 44>> /\ dpi = 300 /\ copies = 9
        /\ Len(calls[k].result.pastes) = 9

\* the distance, in units of 1/scale pixel, between a resized side and its
\* exact value: |new * scale - exact * scale|
Deviation(k) ==
    LET r == calls[k].result
        w == calls[k].img.width
        h == calls[k].img.height
    IN  IF r.fit = "width"
        THEN Abs(r.new_height * w - r.card_width * h)     \* scale w
        ELSE Abs(r.new_width * h - r.card_height * w)     \* scale h

Scale(k) ==
    IF calls[k].result.fit = "width" THEN calls[k].img.width
    ELSE calls[k].img.height

\* C9 (as stated): for a positive cell, the side of the resized image that
\* is scaled differs from its exact value by less than 1 pixel.
C9_LessThanOnePixel ==
    \A k \in Attempts :
        PositiveCell(calls[k].result) => Deviation(k) < Scale(k)

\* C9 (amended): ... differs from its exact value by at most 1 pixel.
C9_AtMostOnePixel ==
    \A k \in Attempts :
        PositiveCell(calls[k].result) => Deviation(k) <= Scale(k)

C9_Witness ==
    \E k \in Attempts :
        /\ PositiveCell(calls[k].result)
        /\ calls[k].result.fit = "width"
        /\ Deviation(k) = Scale(k)

\* the name up to its last dot (the whole name when it has no dot)
UpToLastDot(name) ==
    IF LastDot(name) = 0 THEN name ELSE SubSeq(name, 1, LastDot(name) - 1)

\* the files of output_dir are those the successful calls wrote, one per
\* path, each holding the sheet of the last call that wrote it; every
\* successful call is counted
SheetsWritten ==
    /\ \A f \in output : \E k \in Saved : calls[k].result.path = f.path
    /\ \A k \in Saved :
           \E f \in output :
               /\ f.path = calls[k].result.path
               /\ \E j \in Saved :
                      /\ f.source = calls[j].name
                      /\ calls[j].result.path = f.path
                      /\ \A i \in Saved :
                             calls[i].result.path = f.path => i <= j
    /\ \A f, g \in output : f.path = g.path => f = g
    /\ processed = Cardinality(Saved)
    /\ Cardinality(output) <= Cardinality(Saved)

\* C10 (as stated): a successful call writes one file, <stem>_sheet.png,
\* <stem> being the source name with its last extension removed; a failed
\* call writes none; inputs with the same stem share a path, the later one
\* overwriting the earlier, both being counted.
C10_StemIsNameUpToLastDot ==
    /\ SheetsWritten
    /\ \A k \in Saved :
           calls[k].result.path = UpToLastDot(calls[k].name) \o SheetSuffix

\* C10 (amended): as stated, but a dot that has only dots (or nothing)
\* before it does not start an extension: ".png" keeps its whole name and
\* is saved as ".png_sheet.png".
C10_StemKeepsLeadingDots ==
    /\ SheetsWritten
    /\ \A k \in Saved :
           LET name == calls[k].name
               stem == IF \E d \in 1..(LastDot(name) - 1) : name[d] # "."
                       THEN UpToLastDot(name) ELSE name
           IN  calls[k].result.path = stem \o SheetSuffix

C10_Witness ==
    /\ pc = "done"
    /\ processed = 2
    /\ Cardinality(output) = 1

====
